---- MODULE Spec2Model ----
(***************************************************************************)
(* Model of ray_ban_ble_emulator.c: the device profile table, the          *)
(* advertisement payload builder, the beacon controller (ble_start,        *)
(* ble_stop), the input queue, the main loop of ray_ban_ble_app and the    *)
(* teardown in app_free.  The extra-beacon radio and the notification      *)
(* service are modelled by the effect of the calls the program makes.      *)
(***************************************************************************)
EXTENDS Integers, Sequences, FiniteSets, TLC

VARIABLES app, radio, blink, queue, event, pc, attached, calls

vars == <<app, radio, blink, queue, event, pc, attached, calls>>

(***************************************************************************)
(* Bounds and program constants                                            *)
(***************************************************************************)

\* Most events the model lets wait in the input queue at once.
MaxQueue == 1

\* DeviceCount, the last enumerator of DeviceIndex.
DeviceCount == 4

\* Capacity of the message queue allocated in app_alloc.
QueueCapacity == 8

\* Length of kEmulatedMac.
EXTRA_BEACON_MAC_ADDR_SIZE == 6

\* uint8_t arithmetic.
Byte == 256

ScreenMenu == "ScreenMenu"

ScreenAdvertising == "ScreenAdvertising"

InputKeys == {"InputKeyUp", "InputKeyDown", "InputKeyRight", "InputKeyLeft",
              "InputKeyOk", "InputKeyBack"}

InputTypes == {"InputTypePress", "InputTypeRelease", "InputTypeShort",
               "InputTypeLong", "InputTypeRepeat"}

InputEvents == [key : InputKeys, type : InputTypes]

(***************************************************************************)
(* Device profiles                                                         *)
(***************************************************************************)

kDevices ==
  [i \in 0..(DeviceCount - 1) |->
     CASE i = 0 -> [short_name |-> "Meta Tech", long_name |-> "Meta Platforms Tech",
                    cid_str |-> "0x058E", cid_lo |-> 142, cid_hi |-> 5]
       [] i = 1 -> [short_name |-> "Meta Inc.", long_name |-> "Meta Platforms, Inc.",
                    cid_str |-> "0x01AB", cid_lo |-> 171, cid_hi |-> 1]
       [] i = 2 -> [short_name |-> "Luxottica", long_name |-> "EssilorLuxottica",
                    cid_str |-> "0x0D53", cid_lo |-> 83, cid_hi |-> 13]
       [] i = 3 -> [short_name |-> "Snap Spectacles", long_name |-> "Snapchat, Inc.",
                    cid_str |-> "0x03C2", cid_lo |-> 194, cid_hi |-> 3]]

\* {0x5E, 0x9A, 0x3C, 0x1D, 0x87, 0x42}
kEmulatedMac == <<94, 154, 60, 29, 135, 66>>

(***************************************************************************)
(* Radio (extra beacon) and notification service, as the program uses them *)
(***************************************************************************)

\* One entry of the record of calls a step makes to its collaborators:
\* the call, whether the beacon was live when it was made, and its result
\* (TRUE for a call whose result the program does not read).
Call(op, r, ok) == [op |-> op, live |-> r.active, ok |-> ok]

NoConfig ==
  [min_adv_interval_ms |-> 0, max_adv_interval_ms |-> 0,
   adv_channel_map |-> "unset", adv_power_level |-> "unset",
   address_type |-> "unset", address |-> <<0, 0, 0, 0, 0, 0>>]

RadioIdle == [active |-> FALSE, data |-> <<>>, cfg |-> NoConfig]

furi_hal_bt_extra_beacon_stop(r) == [r EXCEPT !.active = FALSE]

furi_hal_bt_extra_beacon_set_data(r, data, len) ==
  [r EXCEPT !.data = SubSeq(data, 1, len)]

furi_hal_bt_extra_beacon_set_config(r, cfg) == [r EXCEPT !.cfg = cfg]

\* ok is the result of the start request; a refused request leaves the
\* beacon as it was.
furi_hal_bt_extra_beacon_start(r, ok) == [r EXCEPT !.active = r.active \/ ok]

notification_message(b, sequence) ==
  CASE sequence = "sequence_blink_start_blue" -> TRUE
    [] sequence = "sequence_blink_stop" -> FALSE
    [] OTHER -> b

(***************************************************************************)
(* BLE advertisement helpers                                               *)
(***************************************************************************)

build_adv_data_BigEndian(p) ==
  LET out == <<2, 1, 6, 5, 255, p.cid_hi % Byte, p.cid_lo % Byte, 0, 0>>
  IN  [out |-> out, len |-> Len(out) % Byte]

\* out[i++] = ... nine times; returns i.
build_adv_data(p) ==
  LET o1 == <<2>>
      o2 == Append(o1, 1)
      o3 == Append(o2, 6)
      o4 == Append(o3, 5)
      o5 == Append(o4, 255)
      o6 == Append(o5, p.cid_lo % Byte)
      o7 == Append(o6, p.cid_hi % Byte)
      o8 == Append(o7, 0)
      o9 == Append(o8, 0)
  IN  [out |-> o9, len |-> Len(o9) % Byte]

BeaconConfig ==
  [min_adv_interval_ms |-> 100, max_adv_interval_ms |-> 200,
   adv_channel_map |-> "GapAdvChannelMapAll",
   adv_power_level |-> "GapAdvPowerLevel_6dBm",
   address_type |-> "GapAddressTypeRandom",
   address |-> SubSeq(kEmulatedMac, 1, EXTRA_BEACON_MAC_ADDR_SIZE)]

\* Faulty variant: the beacon is reconfigured without being stopped first.
ble_start_NoPreStop(a, r, b, ok) ==
  LET p   == kDevices[a.selected]
      adv == build_adv_data(p)
      c2  == <<Call("furi_hal_bt_extra_beacon_set_data", r, TRUE)>>
      r2  == furi_hal_bt_extra_beacon_set_data(r, adv.out, adv.len)
      c3  == Append(c2, Call("furi_hal_bt_extra_beacon_set_config", r2, TRUE))
      r3  == furi_hal_bt_extra_beacon_set_config(r2, BeaconConfig)
      c4  == Append(c3, Call("furi_hal_bt_extra_beacon_start", r3, ok))
      r4  == furi_hal_bt_extra_beacon_start(r3, ok)
  IN  [app   |-> [a EXCEPT !.advertising = ok],
       radio |-> r4,
       blink |-> IF ok THEN notification_message(b, "sequence_blink_start_blue") ELSE b,
       calls |-> IF ok THEN Append(c4, Call("sequence_blink_start_blue", r4, TRUE)) ELSE c4]

\* Faulty variant: the result of the start request is not recorded; the session is
\* marked advertising whatever the radio answered.
ble_start_IgnoresResult(a, r, b, ok) ==
  LET p   == kDevices[a.selected]
      adv == build_adv_data(p)
      c1  == <<Call("furi_hal_bt_extra_beacon_stop", r, TRUE)>>
      r1  == furi_hal_bt_extra_beacon_stop(r)
      c2  == Append(c1, Call("furi_hal_bt_extra_beacon_set_data", r1, TRUE))
      r2  == furi_hal_bt_extra_beacon_set_data(r1, adv.out, adv.len)
      c3  == Append(c2, Call("furi_hal_bt_extra_beacon_set_config", r2, TRUE))
      r3  == furi_hal_bt_extra_beacon_set_config(r2, BeaconConfig)
      c4  == Append(c3, Call("furi_hal_bt_extra_beacon_start", r3, ok))
      r4  == furi_hal_bt_extra_beacon_start(r3, ok)
  IN  [app   |-> [a EXCEPT !.advertising = TRUE],
       radio |-> r4,
       blink |-> IF ok THEN notification_message(b, "sequence_blink_start_blue") ELSE b,
       calls |-> IF ok THEN Append(c4, Call("sequence_blink_start_blue", r4, TRUE)) ELSE c4]

\* Faulty variant: the "started" notification is sent whatever the radio answered.
ble_start_AlwaysNotifies(a, r, b, ok) ==
  LET p   == kDevices[a.selected]
      adv == build_adv_data(p)
      c1  == <<Call("furi_hal_bt_extra_beacon_stop", r, TRUE)>>
      r1  == furi_hal_bt_extra_beacon_stop(r)
      c2  == Append(c1, Call("furi_hal_bt_extra_beacon_set_data", r1, TRUE))
      r2  == furi_hal_bt_extra_beacon_set_data(r1, adv.out, adv.len)
      c3  == Append(c2, Call("furi_hal_bt_extra_beacon_set_config", r2, TRUE))
      r3  == furi_hal_bt_extra_beacon_set_config(r2, BeaconConfig)
      c4  == Append(c3, Call("furi_hal_bt_extra_beacon_start", r3, ok))
      r4  == furi_hal_bt_extra_beacon_start(r3, ok)
  IN  [app   |-> [a EXCEPT !.advertising = ok],
       radio |-> r4,
       blink |-> notification_message(b, "sequence_blink_start_blue"),
       calls |-> Append(c4, Call("sequence_blink_start_blue", r4, TRUE))]

\* Faulty variant: a refused start request is made a second time.
ble_start_RetriesOnce(a, r, b, ok) ==
  LET p   == kDevices[a.selected]
      adv == build_adv_data(p)
      c1  == <<Call("furi_hal_bt_extra_beacon_stop", r, TRUE)>>
      r1  == furi_hal_bt_extra_beacon_stop(r)
      c2  == Append(c1, Call("furi_hal_bt_extra_beacon_set_data", r1, TRUE))
      r2  == furi_hal_bt_extra_beacon_set_data(r1, adv.out, adv.len)
      c3  == Append(c2, Call("furi_hal_bt_extra_beacon_set_config", r2, TRUE))
      r3  == furi_hal_bt_extra_beacon_set_config(r2, BeaconConfig)
      c4  == Append(c3, Call("furi_hal_bt_extra_beacon_start", r3, ok))
      r4  == furi_hal_bt_extra_beacon_start(r3, ok)
      c5  == IF ok THEN c4 ELSE Append(c4, Call("furi_hal_bt_extra_beacon_start", r4, ok))
  IN  [app   |-> [a EXCEPT !.advertising = ok],
       radio |-> r4,
       blink |-> IF ok THEN notification_message(b, "sequence_blink_start_blue") ELSE b,
       calls |-> IF ok THEN Append(c5, Call("sequence_blink_start_blue", r4, TRUE)) ELSE c5]

\* ble_start on session a, radio r and indicator b, when the radio answers
\* ok to the start request: the session, radio and indicator afterwards
\* and the calls made, in order.
ble_start(a, r, b, ok) ==
  LET p   == kDevices[a.selected]
      c1  == <<Call("furi_hal_bt_extra_beacon_stop", r, TRUE)>>
      r1  == furi_hal_bt_extra_beacon_stop(r)
      adv == build_adv_data(p)
      c2  == Append(c1, Call("furi_hal_bt_extra_beacon_set_data", r1, TRUE))
      r2  == furi_hal_bt_extra_beacon_set_data(r1, adv.out, adv.len)
      c3  == Append(c2, Call("furi_hal_bt_extra_beacon_set_config", r2, TRUE))
      r3  == furi_hal_bt_extra_beacon_set_config(r2, BeaconConfig)
      c4  == Append(c3, Call("furi_hal_bt_extra_beacon_start", r3, ok))
      r4  == furi_hal_bt_extra_beacon_start(r3, ok)
  IN  [app   |-> [a EXCEPT !.advertising = ok],
       radio |-> r4,
       blink |-> IF ok THEN notification_message(b, "sequence_blink_start_blue") ELSE b,
       calls |-> IF ok THEN Append(c4, Call("sequence_blink_start_blue", r4, TRUE)) ELSE c4]

\* Faulty variant: the session flag is cleared but the radio is not asked to stop.
ble_stop_FlagOnly(a, r, b) ==
  [app   |-> [a EXCEPT !.advertising = FALSE],
   radio |-> r,
   blink |-> notification_message(b, "sequence_blink_stop"),
   calls |-> <<Call("sequence_blink_stop", r, TRUE)>>]

\* Faulty variant: the session flag is toggled instead of cleared.
ble_stop_Toggles(a, r, b) ==
  LET r1 == furi_hal_bt_extra_beacon_stop(r)
  IN  [app   |-> [a EXCEPT !.advertising = ~a.advertising],
       radio |-> r1,
       blink |-> notification_message(b, "sequence_blink_stop"),
       calls |-> <<Call("furi_hal_bt_extra_beacon_stop", r, TRUE),
                   Call("sequence_blink_stop", r1, TRUE)>>]

ble_stop(a, r, b) ==
  LET r1 == furi_hal_bt_extra_beacon_stop(r)
  IN  [app   |-> [a EXCEPT !.advertising = FALSE],
       radio |-> r1,
       blink |-> notification_message(b, "sequence_blink_stop"),
       calls |-> <<Call("furi_hal_bt_extra_beacon_stop", r, TRUE),
                   Call("sequence_blink_stop", r1, TRUE)>>]

(***************************************************************************)
(* Application lifecycle                                                   *)
(***************************************************************************)

app_alloc == [screen |-> ScreenMenu, selected |-> 0, advertising |-> FALSE]

\* The calls of app_free after the beacon has been dealt with.
ReleaseCalls(r) ==
  <<Call("gui_remove_view_port", r, TRUE),
    Call("furi_record_close_gui", r, TRUE),
    Call("view_port_free", r, TRUE),
    Call("furi_record_close_notification", r, TRUE),
    Call("furi_message_queue_free", r, TRUE),
    Call("free", r, TRUE)>>

\* Faulty variant: the beacon is stopped after the resources have been released.
app_free_StopsLast(a, r, b) ==
  LET s == IF a.advertising
             THEN ble_stop(a, r, b)
             ELSE [app |-> a, radio |-> r, blink |-> b, calls |-> <<>>]
  IN  [s EXCEPT !.calls = ReleaseCalls(r) \o s.calls]

\* Faulty variant: the beacon is stopped whatever the session records.
app_free_AlwaysStops(a, r, b) ==
  LET s == ble_stop(a, r, b)
  IN  [s EXCEPT !.calls = s.calls \o ReleaseCalls(s.radio)]

app_free(a, r, b) ==
  LET s == IF a.advertising
             THEN ble_stop(a, r, b)
             ELSE [app |-> a, radio |-> r, blink |-> b, calls |-> <<>>]
  IN  [s EXCEPT !.calls = s.calls \o ReleaseCalls(s.radio)]

(***************************************************************************)
(* Input handling: the transitions of the loop in ray_ban_ble_app          *)
(***************************************************************************)

\* Faulty variant: Short events are acted on as well.
Handled_AlsoShort(e) ==
  e.type \in {"InputTypePress", "InputTypeRepeat", "InputTypeShort"}

\* Faulty variant: only Press events are acted on.
Handled_PressOnly(e) == e.type = "InputTypePress"

\* event.type is InputTypePress or InputTypeRepeat
Handled(e) == e.type \in {"InputTypePress", "InputTypeRepeat"}

\* Faulty variant: Up stops at the first entry instead of wrapping.
SelectUp_Clamps(selected) == IF selected = 0 THEN 0 ELSE selected - 1

\* case InputKeyUp
SelectUp(selected) == IF selected = 0 THEN DeviceCount - 1 ELSE selected - 1

\* Faulty variant: Down moves on without wrapping.
SelectDown_NoWrap(selected) == selected + 1

\* case InputKeyDown
SelectDown(selected) == (selected + 1) % DeviceCount

\* Faulty variant: the screen changes without looking at the outcome of the start.
ScreenAfterStart_Always(a) == ScreenAdvertising

\* if(app->advertising) app->screen = ScreenAdvertising;
ScreenAfterStart(a) == IF a.advertising THEN ScreenAdvertising ELSE a.screen

ViewPortUpdate(r) == Call("view_port_update", r, TRUE)

\* What draw_callback puts on the canvas for session a: the title and, in
\* the Menu, the list rows with the highlighted one; in the Advertising
\* screen, the name and company identifier of kDevices[a.selected].
draw_callback(a) ==
  IF a.screen = ScreenMenu
    THEN [title |-> "Ray-Ban BLE Emulator",
          rows |-> [i \in 0..(DeviceCount - 1) |->
                      [name |-> kDevices[i].short_name,
                       cid |-> kDevices[i].cid_str,
                       highlighted |-> (i = a.selected)]],
          footer |-> "[Ok] Advertise  [Bk] Exit"]
    ELSE LET p == kDevices[a.selected]
         IN  [title |-> "Broadcasting...",
              name |-> p.long_name,
              cid |-> p.cid_str,
              footer |-> "[Back] Stop"]

(***************************************************************************)
(* The program: input_callback on the GUI side, the loop of                *)
(* ray_ban_ble_app and app_free on the application thread                  *)
(***************************************************************************)

\* InputEvent event; before the first receive it holds no event.
NoEvent == [key |-> "none", type |-> "none"]

Init ==
  /\ app = app_alloc
  /\ radio = RadioIdle
  /\ blink = FALSE
  /\ queue = <<>>
  /\ event = NoEvent
  /\ pc = "loop"
  /\ attached = TRUE
  /\ calls = <<>>

\* bool running, read by while(running)
running == pc = "loop"

QueueRoom == IF MaxQueue < QueueCapacity THEN MaxQueue ELSE QueueCapacity

\* furi_message_queue_put(app->event_queue, event, FuriWaitForever)
input_callback ==
  /\ attached
  /\ pc \in {"loop", "free"}
  /\ Len(queue) < QueueRoom
  /\ \E e \in InputEvents : queue' = Append(queue, e)
  /\ UNCHANGED <<app, radio, blink, event, pc, attached, calls>>

\* furi_message_queue_get(...) != FuriStatusOk: nothing arrived in 100 ms.
LoopTimeout ==
  /\ running
  /\ queue = <<>>
  /\ calls' = <<ViewPortUpdate(radio)>>
  /\ UNCHANGED <<app, radio, blink, queue, event, pc, attached>>

\* furi_message_queue_get(...) == FuriStatusOk
Receive ==
  /\ running
  /\ queue # <<>>
  /\ event' = Head(queue)
  /\ queue' = Tail(queue)

\* if(event.type != InputTypePress && event.type != InputTypeRepeat) continue;
LoopIgnoredType ==
  /\ Receive
  /\ ~Handled(event')
  /\ calls' = <<>>
  /\ UNCHANGED <<app, radio, blink, pc, attached>>

MenuUp ==
  /\ Receive
  /\ Handled(event')
  /\ app.screen = ScreenMenu
  /\ event'.key = "InputKeyUp"
  /\ app' = [app EXCEPT !.selected = SelectUp(app.selected)]
  /\ calls' = <<ViewPortUpdate(radio)>>
  /\ UNCHANGED <<radio, blink, pc, attached>>

MenuDown ==
  /\ Receive
  /\ Handled(event')
  /\ app.screen = ScreenMenu
  /\ event'.key = "InputKeyDown"
  /\ app' = [app EXCEPT !.selected = SelectDown(app.selected)]
  /\ calls' = <<ViewPortUpdate(radio)>>
  /\ UNCHANGED <<radio, blink, pc, attached>>

MenuOk ==
  /\ Receive
  /\ Handled(event')
  /\ app.screen = ScreenMenu
  /\ event'.key = "InputKeyOk"
  /\ \E ok \in BOOLEAN :
       LET s == ble_start(app, radio, blink, ok)
       IN  /\ app' = [s.app EXCEPT !.screen = ScreenAfterStart(s.app)]
           /\ radio' = s.radio
           /\ blink' = s.blink
           /\ calls' = Append(s.calls, ViewPortUpdate(s.radio))
  /\ UNCHANGED <<pc, attached>>

\* Faulty variant: Back in Menu is treated like a key without a case.
MenuBack_Ignored ==
  /\ Receive
  /\ Handled(event')
  /\ app.screen = ScreenMenu
  /\ event'.key = "InputKeyBack"
  /\ calls' = <<ViewPortUpdate(radio)>>
  /\ UNCHANGED <<app, radio, blink, pc, attached>>

\* running = false; the loop ends after this iteration.
MenuBack ==
  /\ Receive
  /\ Handled(event')
  /\ app.screen = ScreenMenu
  /\ event'.key = "InputKeyBack"
  /\ pc' = "free"
  /\ calls' = <<ViewPortUpdate(radio)>>
  /\ UNCHANGED <<app, radio, blink, attached>>

MenuDefault ==
  /\ Receive
  /\ Handled(event')
  /\ app.screen = ScreenMenu
  /\ event'.key \notin {"InputKeyUp", "InputKeyDown", "InputKeyOk", "InputKeyBack"}
  /\ calls' = <<ViewPortUpdate(radio)>>
  /\ UNCHANGED <<app, radio, blink, pc, attached>>

\* Faulty variant: Back ends the loop whatever the screen is.
AdvertisingBack_Exits ==
  /\ Receive
  /\ Handled(event')
  /\ app.screen # ScreenMenu
  /\ event'.key = "InputKeyBack"
  /\ pc' = "free"
  /\ calls' = <<ViewPortUpdate(radio)>>
  /\ UNCHANGED <<app, radio, blink, attached>>

AdvertisingBack ==
  /\ Receive
  /\ Handled(event')
  /\ app.screen # ScreenMenu
  /\ event'.key = "InputKeyBack"
  /\ LET s == ble_stop(app, radio, blink)
     IN  /\ app' = [s.app EXCEPT !.screen = ScreenMenu]
         /\ radio' = s.radio
         /\ blink' = s.blink
         /\ calls' = Append(s.calls, ViewPortUpdate(s.radio))
  /\ UNCHANGED <<pc, attached>>

\* Faulty variant: Ok starts the beacon whatever the screen is.
AdvertisingOther_OkRestarts ==
  /\ Receive
  /\ Handled(event')
  /\ app.screen # ScreenMenu
  /\ event'.key # "InputKeyBack"
  /\ IF event'.key = "InputKeyOk"
       THEN \E ok \in BOOLEAN :
              LET s == ble_start(app, radio, blink, ok)
              IN  /\ app' = [s.app EXCEPT !.screen = ScreenAfterStart(s.app)]
                  /\ radio' = s.radio
                  /\ blink' = s.blink
                  /\ calls' = Append(s.calls, ViewPortUpdate(s.radio))
       ELSE /\ calls' = <<ViewPortUpdate(radio)>>
            /\ UNCHANGED <<app, radio, blink>>
  /\ UNCHANGED <<pc, attached>>

\* Faulty variant: Up and Down move the selection whatever the screen is.
AdvertisingOther_MovesSelection ==
  /\ Receive
  /\ Handled(event')
  /\ app.screen # ScreenMenu
  /\ event'.key # "InputKeyBack"
  /\ app' = [app EXCEPT !.selected =
               CASE event'.key = "InputKeyUp" -> SelectUp(app.selected)
                 [] event'.key = "InputKeyDown" -> SelectDown(app.selected)
                 [] OTHER -> app.selected]
  /\ calls' = <<ViewPortUpdate(radio)>>
  /\ UNCHANGED <<radio, blink, pc, attached>>

AdvertisingOther ==
  /\ Receive
  /\ Handled(event')
  /\ app.screen # ScreenMenu
  /\ event'.key # "InputKeyBack"
  /\ calls' = <<ViewPortUpdate(radio)>>
  /\ UNCHANGED <<app, radio, blink, pc, attached>>

\* app_free(app); return 0;
AppFree ==
  /\ pc = "free"
  /\ LET s == app_free(app, radio, blink)
     IN  /\ app' = s.app
         /\ radio' = s.radio
         /\ blink' = s.blink
         /\ calls' = s.calls
  /\ queue' = <<>>
  /\ attached' = FALSE
  /\ pc' = "done"
  /\ UNCHANGED event

Next ==
  \/ input_callback
  \/ LoopTimeout
  \/ LoopIgnoredType
  \/ MenuUp
  \/ MenuDown
  \/ MenuOk
  \/ MenuBack
  \/ MenuDefault
  \/ AdvertisingBack
  \/ AdvertisingOther
  \/ AppFree

Spec == Init /\ [][Next]_vars

(***************************************************************************)
(* The beacon controller on its own: ble_start, ble_stop and app_free      *)
(* applied in any order to the session made by app_alloc, with the         *)
(* selection moved in between.  The loop of ray_ban_ble_app calls them in  *)
(* fewer orders than this.                                                 *)
(***************************************************************************)

InitOps ==
  /\ app = app_alloc
  /\ radio = RadioIdle
  /\ blink = FALSE
  /\ queue = <<>>
  /\ event = NoEvent
  /\ pc = "ops"
  /\ attached = TRUE
  /\ calls = <<>>

OpStart ==
  /\ pc = "ops"
  /\ \E ok \in BOOLEAN :
       LET s == ble_start(app, radio, blink, ok)
       IN  /\ app' = s.app
           /\ radio' = s.radio
           /\ blink' = s.blink
           /\ calls' = s.calls
  /\ UNCHANGED <<queue, event, pc, attached>>

OpStop ==
  /\ pc = "ops"
  /\ LET s == ble_stop(app, radio, blink)
     IN  /\ app' = s.app
         /\ radio' = s.radio
         /\ blink' = s.blink
         /\ calls' = s.calls
  /\ UNCHANGED <<queue, event, pc, attached>>

OpSelectUp ==
  /\ pc = "ops"
  /\ app' = [app EXCEPT !.selected = SelectUp(app.selected)]
  /\ calls' = <<>>
  /\ UNCHANGED <<radio, blink, queue, event, pc, attached>>

OpSelectDown ==
  /\ pc = "ops"
  /\ app' = [app EXCEPT !.selected = SelectDown(app.selected)]
  /\ calls' = <<>>
  /\ UNCHANGED <<radio, blink, queue, event, pc, attached>>

OpFree ==
  /\ pc = "ops"
  /\ LET s == app_free(app, radio, blink)
     IN  /\ app' = s.app
         /\ radio' = s.radio
         /\ blink' = s.blink
         /\ calls' = s.calls
  /\ attached' = FALSE
  /\ pc' = "done"
  /\ UNCHANGED <<queue, event>>

NextOps ==
  \/ OpStart
  \/ OpStop
  \/ OpSelectUp
  \/ OpSelectDown
  \/ OpFree

SpecOps == InitOps /\ [][NextOps]_vars

(***************************************************************************)
(* Properties                                                              *)
(***************************************************************************)

StopOp == "furi_hal_bt_extra_beacon_stop"

SetDataOp == "furi_hal_bt_extra_beacon_set_data"

SetConfigOp == "furi_hal_bt_extra_beacon_set_config"

StartOp == "furi_hal_bt_extra_beacon_start"

\* How many calls of op the sequence c holds.
CountOf(c, op) == Cardinality({k \in DOMAIN c : c[k].op = op})

\* The sequence c holds a start request that the radio answered with ok.
StartReturned(c, ok) ==
  \E k \in DOMAIN c : c[k].op = StartOp /\ c[k].ok = ok

\* The step handles a Press or Repeat of key k in the Menu screen.
MenuKeyStep(k) ==
  /\ pc = "loop"
  /\ queue # <<>>
  /\ queue' = Tail(queue)
  /\ Handled(Head(queue))
  /\ Head(queue).key = k
  /\ app.screen = ScreenMenu

\* The Bluetooth SIG company identifiers of the four profiles, in table
\* order: 0x058E, 0x01AB, 0x0D53, 0x03C2.
CompanyId == <<1422, 427, 3411, 962>>

\* 02 01 06 05 FF lo hi 00 00 for the 16-bit company identifier cid.
Payload(cid) == <<2, 1, 6, 5, 255, cid % Byte, cid \div Byte, 0, 0>>

\* C1: for every profile of the table build_adv_data returns length 9 and
\* the bytes 02 01 06 05 FF lo(companyId) hi(companyId) 00 00, and these
\* are the bytes a start loads into the radio for the selected profile.
C1_PayloadBytes ==
  /\ \A i \in 0..(DeviceCount - 1) :
       LET b == build_adv_data(kDevices[i])
       IN  /\ b.len = 9
           /\ SubSeq(b.out, 1, b.len) = Payload(CompanyId[i + 1])
  /\ CountOf(calls, SetDataOp) > 0 => radio.data = Payload(CompanyId[app.selected + 1])

\* A start has just put the Luxottica payload 02 01 06 05 FF 53 0D 00 00 on air.
C1_Witness ==
  /\ CountOf(calls, SetDataOp) > 0
  /\ app.selected = 2
  /\ radio.active
  /\ radio.data = <<2, 1, 6, 5, 255, 83, 13, 0, 0>>

\* C2: a step that handles Ok in the Menu screen ends in the Advertising
\* screen if and only if the radio answered the start request with success,
\* and ends in the Menu screen when it answered with failure.
C2_ConfirmIffStarted ==
  [][MenuKeyStep("InputKeyOk") =>
       /\ (app'.screen = ScreenAdvertising) <=> StartReturned(calls', TRUE)
       /\ StartReturned(calls', FALSE) => app'.screen = ScreenMenu]_vars

\* Ok was just handled in Menu, the start succeeded and the screen changed.
C2_Witness ==
  /\ event.key = "InputKeyOk"
  /\ StartReturned(calls, TRUE)
  /\ app.screen = ScreenAdvertising

\* C3: in every state between two loop iterations, the Advertising screen
\* implies that the session records advertising.
C3_AdvertisingScreenImpliesFlag ==
  app.screen = ScreenAdvertising => app.advertising

\* The Advertising screen is showing while the beacon runs.
C3_Witness ==
  /\ app.screen = ScreenAdvertising
  /\ app.advertising
  /\ radio.active
  /\ pc = "loop"

\* C4: once app_free has returned the radio is not advertising.
C4_NoBeaconAfterExit ==
  pc = "done" => ~radio.active

\* The program has exited after a profile was put on air and taken off again.
C4_Witness ==
  /\ pc = "done"
  /\ radio.data # <<>>
  /\ radio.cfg = BeaconConfig
  /\ ~blink

\* C5 as stated: app_free always issues a radio stop, also when the
\* session records no advertising.
C5_TeardownAlwaysStops ==
  pc = "done" => CountOf(calls, StopOp) > 0

\* C5 amended: app_free issues a radio stop exactly when the session
\* records advertising as it begins; when it records none, app_free makes
\* no radio call and releases the resources only.
C5_TeardownStopsIffAdvertising ==
  [][(pc = "free" /\ pc' = "done") =>
       /\ (CountOf(calls', StopOp) > 0) <=> app.advertising
       /\ ~app.advertising =>
            /\ calls' = ReleaseCalls(radio)
            /\ radio' = radio]_vars

\* The program has exited and app_free made no stop request.
C5_Witness ==
  /\ pc = "done"
  /\ ~attached
  /\ CountOf(calls, StopOp) = 0
  /\ Len(calls) > 0

\* C6: when app_free begins with the session recording advertising, it
\* requests the radio stop exactly once and before any other teardown call.
C6_TeardownStopsOnceFirst ==
  [][(pc # "done" /\ pc' = "done" /\ app.advertising) =>
       /\ CountOf(calls', StopOp) = 1
       /\ calls'[1].op = StopOp
       /\ \A k \in DOMAIN calls' : k > 1 => ~calls'[k].live
       /\ ~radio'.active
       /\ ~app'.advertising]_vars

\* app_free has run on a live beacon: its first call was the stop.
C6_Witness ==
  /\ pc = "done"
  /\ Len(calls) > 2
  /\ calls[1].op = StopOp
  /\ calls[1].live
  /\ calls[Len(calls)].op = "free"

\* C7: every set_data and set_config call is made on a stopped beacon, and
\* a live beacon carries the fixed configuration and the payload of exactly
\* one profile of the table.
C7_ReconfiguredOnlyWhenStopped ==
  /\ \A k \in DOMAIN calls :
       calls[k].op \in {SetDataOp, SetConfigOp} => ~calls[k].live
  /\ radio.active =>
       /\ radio.cfg = BeaconConfig
       /\ Cardinality({i \in 0..(DeviceCount - 1) :
                         radio.data = Payload(CompanyId[i + 1])}) = 1

\* ble_start was called on a live beacon: it stopped it, then configured.
C7_Witness ==
  /\ Len(calls) >= 4
  /\ calls[1].op = StopOp
  /\ calls[1].live
  /\ calls[2].op = SetDataOp
  /\ calls[3].op = SetConfigOp
  /\ radio.active

\* C8: when the start request of an Ok handled in Menu fails, afterwards
\* the session records no advertising, the beacon is not running, the
\* screen is Menu, the selection is unchanged and no "started"
\* notification was sent.
C8_FailedStartChangesNothing ==
  [][(MenuKeyStep("InputKeyOk") /\ StartReturned(calls', FALSE)) =>
       /\ ~app'.advertising
       /\ ~radio'.active
       /\ app'.screen = ScreenMenu
       /\ app'.selected = app.selected
       /\ CountOf(calls', "sequence_blink_start_blue") = 0
       /\ blink' = blink
       /\ pc' = "loop"]_vars

\* Ok was just handled in Menu and the radio refused the start.
C8_Witness ==
  /\ event.key = "InputKeyOk"
  /\ StartReturned(calls, FALSE)
  /\ app.screen = ScreenMenu
  /\ pc = "loop"

\* The calls of c are those of one ble_stop.
IsStopCalls(c) ==
  /\ Len(c) = 2
  /\ c[1].op = StopOp
  /\ c[2].op = "sequence_blink_stop"

\* C9: ble_stop called with no beacon running and no advertising recorded
\* leaves the session (advertising = false, screen, selection) and the
\* radio (stopped, data, configuration) as they were, and an indicator
\* that was off stays off.
C9_StopWhenIdleIsNoOp ==
  [][(pc = "ops" /\ pc' = "ops" /\ IsStopCalls(calls')
        /\ ~app.advertising /\ ~radio.active) =>
       /\ ~app'.advertising
       /\ app' = app
       /\ radio' = radio
       /\ ~blink => ~blink']_vars

\* ble_stop has just run on a beacon that was not live.
C9_Witness ==
  /\ pc = "ops"
  /\ IsStopCalls(calls)
  /\ ~calls[1].live
  /\ ~app.advertising
  /\ ~radio.active

\* C10: in Menu, Up from 0 gives DeviceCount-1 and otherwise i-1, Down from
\* DeviceCount-1 gives 0 and otherwise i+1, and Down undoes Up and Up
\* undoes Down at every index.
C10_SelectionCycles ==
  [][/\ MenuKeyStep("InputKeyUp") =>
          /\ app'.selected =
               IF app.selected = 0 THEN DeviceCount - 1 ELSE app.selected - 1
          /\ SelectDown(app'.selected) = app.selected
     /\ MenuKeyStep("InputKeyDown") =>
          /\ app'.selected =
               IF app.selected = DeviceCount - 1 THEN 0 ELSE app.selected + 1
          /\ SelectUp(app'.selected) = app.selected
     /\ \A i \in 0..(DeviceCount - 1) :
          /\ SelectDown(SelectUp(i)) = i
          /\ SelectUp(SelectDown(i)) = i]_vars

\* Up was just handled in Menu and the selection is the last entry, which
\* Up reaches from the first entry only.
C10_Witness ==
  /\ event.key = "InputKeyUp"
  /\ Handled(event)
  /\ app.screen = ScreenMenu
  /\ app.selected = DeviceCount - 1
  /\ radio.data = <<>>
  /\ calls = <<ViewPortUpdate(radio)>>

\* The type of e is one the loop acts on.
PressOrRepeat(e) == e.type \in {"InputTypePress", "InputTypeRepeat"}

\* The step takes a Press or Repeat of key k off the queue in the
\* Advertising screen.
AdvertisingKeyStep(k) ==
  /\ pc = "loop"
  /\ queue # <<>>
  /\ queue' = Tail(queue)
  /\ PressOrRepeat(Head(queue))
  /\ Head(queue).key = k
  /\ app.screen = ScreenAdvertising

\* C11: the selection is 0 until the first event is received and always an
\* index of the device table, 0 <= selected < DeviceCount.
C11_SelectionInBounds ==
  /\ event = NoEvent => app.selected = 0
  /\ app.selected \in Int
  /\ 0 <= app.selected
  /\ app.selected < DeviceCount
  /\ app.selected \in DOMAIN kDevices

\* Down was just handled in Menu and wrapped the selection from the last
\* entry to the first.
C11_Witness ==
  /\ event.key = "InputKeyDown"
  /\ PressOrRepeat(event)
  /\ app.screen = ScreenMenu
  /\ app.selected = 0

\* C12: a Press or Repeat of any key but Back handled in the Advertising
\* screen leaves screen, selection, advertising flag, radio and indicator
\* unchanged, makes no radio or notification call and keeps the loop going.
C12_AdvertisingIgnoresOtherKeys ==
  [][\A k \in InputKeys \ {"InputKeyBack"} :
       AdvertisingKeyStep(k) =>
         /\ app' = app
         /\ radio' = radio
         /\ blink' = blink
         /\ pc' = pc
         /\ calls' = <<ViewPortUpdate(radio)>>]_vars

\* Up was just handled in the Advertising screen; the beacon still runs.
C12_Witness ==
  /\ event.key = "InputKeyUp"
  /\ PressOrRepeat(event)
  /\ app.screen = ScreenAdvertising
  /\ radio.active
  /\ calls = <<ViewPortUpdate(radio)>>

\* C13: a Press or Repeat of Back handled in the Advertising screen
\* requests the radio stop and sends the "stopped" notification; afterwards
\* the screen is Menu, advertising is false, the beacon is not running,
\* the loop keeps running and the selection is unchanged.
C13_AdvertisingBackStops ==
  [][AdvertisingKeyStep("InputKeyBack") =>
       /\ CountOf(calls', StopOp) = 1
       /\ CountOf(calls', "sequence_blink_stop") = 1
       /\ app'.screen = ScreenMenu
       /\ ~app'.advertising
       /\ ~radio'.active
       /\ ~blink'
       /\ pc' = "loop"
       /\ app'.selected = app.selected]_vars

\* Back was just handled in the Advertising screen: the beacon that was
\* live has been stopped and the Menu is showing.
C13_Witness ==
  /\ event.key = "InputKeyBack"
  /\ PressOrRepeat(event)
  /\ Len(calls) = 3
  /\ calls[1].op = StopOp
  /\ calls[1].live
  /\ calls[2].op = "sequence_blink_stop"
  /\ app.screen = ScreenMenu
  /\ pc = "loop"

\* C14: a Press or Repeat of Back handled in Menu ends the loop, and only
\* such a step does; once the loop has ended no event is taken off the
\* queue any more, app_free can run, and the only step the application
\* thread takes is app_free, after which the entry point has returned.
C14_MenuBackTerminates ==
  [][/\ MenuKeyStep("InputKeyBack") => pc' = "free"
     /\ (pc = "loop" /\ pc' # "loop") => MenuKeyStep("InputKeyBack")
     /\ pc # "loop" => event' = event
     /\ pc = "free" =>
          /\ ENABLED AppFree
          /\ pc' \in {"free", "done"}
          /\ pc' = "done" => (~attached' /\ queue' = <<>>)
          /\ pc' = "free" => (app' = app /\ radio' = radio /\ calls' = calls)
     /\ pc = "done" => UNCHANGED vars]_vars

\* The program has returned after a Back handled in Menu: that Back is the
\* last event the loop received.
C14_Witness ==
  /\ pc = "done"
  /\ event.key = "InputKeyBack"
  /\ PressOrRepeat(event)
  /\ app.screen = ScreenMenu
  /\ calls[Len(calls)].op = "free"

\* The two most significant bits of the byte b are both set.
TopTwoBitsSet(b) == (b % Byte) \div 64 = 3

\* C15: the address every start applies to the radio is the fixed 6-byte
\* constant with address type random, and the most significant byte of
\* that constant has its top two bits set.  The most significant byte is
\* the last byte of the array in the radio's byte order and the first in
\* the order the Advertising screen prints it; either is accepted here.
C15_StaticRandomAddress ==
  CountOf(calls, SetConfigOp) > 0 =>
    /\ radio.cfg.address_type = "GapAddressTypeRandom"
    /\ Len(radio.cfg.address) = 6
    /\ radio.cfg.address = <<94, 154, 60, 29, 135, 66>>
    /\ \/ TopTwoBitsSet(radio.cfg.address[6])
       \/ TopTwoBitsSet(radio.cfg.address[1])

\* The company identifier labels of the four profiles, in table order.
CompanyIdLabel == <<"0x058E", "0x01AB", "0x0D53", "0x03C2">>

\* C16: whenever the beacon runs, the data loaded in the radio is the
\* payload of the profile currently selected, and the Advertising screen
\* names exactly the profile whose payload is on air.
C16_BroadcastIsSelectedProfile ==
  /\ radio.active => radio.data = Payload(CompanyId[app.selected + 1])
  /\ app.screen = ScreenAdvertising =>
       \A i \in 0..(DeviceCount - 1) :
         radio.data = Payload(CompanyId[i + 1]) <=>
           draw_callback(app).cid = CompanyIdLabel[i + 1]

\* Index 2 was selected and confirmed: 02 01 06 05 FF 53 0D 00 00 is on
\* air and the Advertising screen shows the Luxottica identifier.
C16_Witness ==
  /\ app.screen = ScreenAdvertising
  /\ radio.active
  /\ app.selected = 2
  /\ radio.data = <<2, 1, 6, 5, 255, 83, 13, 0, 0>>
  /\ draw_callback(app).cid = "0x0D53"
  /\ draw_callback(app).name = "EssilorLuxottica"

\* The step takes an event off the queue inside the loop.
ConsumesEvent ==
  /\ pc = "loop"
  /\ queue # <<>>
  /\ queue' = Tail(queue)

\* The step takes a Press or Repeat of Ok off the queue in the Menu screen.
ConfirmInMenu ==
  /\ ConsumesEvent
  /\ PressOrRepeat(Head(queue))
  /\ Head(queue).key = "InputKeyOk"
  /\ app.screen = ScreenMenu

\* C17: a Confirm handled in Menu makes exactly one start request, after
\* stop, set_data and set_config in this order, whether it succeeds or
\* fails; no other step of the application thread (another event, a
\* timeout, teardown) makes a start request.
C17_OneStartPerConfirm ==
  [][/\ ConfirmInMenu =>
          /\ CountOf(calls', StartOp) = 1
          /\ Len(calls') >= 4
          /\ calls'[1].op = StopOp
          /\ calls'[2].op = SetDataOp
          /\ calls'[3].op = SetConfigOp
          /\ calls'[4].op = StartOp
          /\ CountOf(calls', StopOp) = 1
          /\ CountOf(calls', SetDataOp) = 1
          /\ CountOf(calls', SetConfigOp) = 1
     /\ (ConsumesEvent /\ ~ConfirmInMenu) => CountOf(calls', StartOp) = 0
     /\ (~ConsumesEvent /\ calls' # calls) => CountOf(calls', StartOp) = 0]_vars

\* A Confirm in Menu was refused by the radio: one start request was made,
\* fourth in order, and none after it.
C17_Witness ==
  /\ event.key = "InputKeyOk"
  /\ Len(calls) = 5
  /\ calls[4].op = StartOp
  /\ ~calls[4].ok
  /\ calls[5].op = "view_port_update"
  /\ CountOf(calls, StartOp) = 1
  /\ app.screen = ScreenMenu

\* C18: a loop iteration that times out, or that receives an event whose
\* type is neither Press nor Repeat, leaves the session (screen, selection,
\* advertising flag), the radio and the indicator unchanged, makes no radio
\* call and keeps the loop running.
C18_TimeoutAndOtherTypesChangeNothing ==
  [][((pc = "loop" /\ queue = <<>> /\ queue' = <<>>)
        \/ (ConsumesEvent /\ ~PressOrRepeat(Head(queue)))) =>
       /\ app' = app
       /\ radio' = radio
       /\ blink' = blink
       /\ pc' = "loop"
       /\ \A k \in DOMAIN calls' : calls'[k].op = "view_port_update"]_vars

\* A Release of Back was just received in the Advertising screen: the
\* beacon still runs and the screen has not changed.
C18_Witness ==
  /\ event = [key |-> "InputKeyBack", type |-> "InputTypeRelease"]
  /\ calls = <<>>
  /\ app.screen = ScreenAdvertising
  /\ app.advertising
  /\ radio.active
  /\ pc = "loop"

\* C19: wherever the loop waits for the next event, advertising is true
\* exactly when the beacon runs and exactly when the screen is
\* Advertising; the Menu is never showing while the radio transmits.
C19_FlagRadioScreenAgree ==
  pc = "loop" =>
    /\ app.advertising <=> radio.active
    /\ app.advertising <=> (app.screen = ScreenAdvertising)
    /\ app.screen = ScreenMenu => ~radio.active

\* Back in the Menu after a beacon was started and stopped: flag false,
\* radio silent, and the loop waiting.
C19_Witness ==
  /\ pc = "loop"
  /\ app.screen = ScreenMenu
  /\ ~app.advertising
  /\ ~radio.active
  /\ CountOf(calls, StopOp) = 1
  /\ calls[1].live
  /\ queue = <<>>

\* The step takes a Press or Repeat of Back off the queue.
BackStep ==
  /\ ConsumesEvent
  /\ PressOrRepeat(Head(queue))
  /\ Head(queue).key = "InputKeyBack"

\* C20: a Press or Repeat of Back ends the loop when handled in Menu, and
\* when handled in Advertising stops the beacon and leaves the loop in
\* Menu; so a Back that directly follows another handled Back (a Repeat
\* after a Press included) always ends the loop, with the beacon stopped.
C20_TwoBacksTerminate ==
  [][BackStep =>
       /\ app.screen = ScreenMenu => pc' = "free"
       /\ app.screen = ScreenAdvertising =>
            /\ pc' = "loop"
            /\ app'.screen = ScreenMenu
            /\ ~radio'.active
       /\ (PressOrRepeat(event) /\ event.key = "InputKeyBack") =>
            /\ pc' = "free"
            /\ ~radio'.active
            /\ ~app'.advertising]_vars

\* A Press of Back has just stopped a live beacon from the Advertising
\* screen and the Repeat of the held key is next in the queue.
C20_Witness ==
  /\ pc = "loop"
  /\ event = [key |-> "InputKeyBack", type |-> "InputTypePress"]
  /\ Len(calls) = 3
  /\ calls[1].op = StopOp
  /\ calls[1].live
  /\ app.screen = ScreenMenu
  /\ queue = <<[key |-> "InputKeyBack", type |-> "InputTypeRepeat"]>>

====
